---- MODULE Spec2Model ----
(***************************************************************************)
(* A model of verify_md5deep.py: the manifest line parser and loader       *)
(* (process_file), the path-similarity predicate (are_paths_similar), the  *)
(* approximate set differ (subtract_sets_with_similar_paths) and the       *)
(* control flow of main.                                                   *)
(*                                                                         *)
(* A Python str is a sequence of one-character strings.  None and the      *)
(* empty list are both the empty sequence: the code only tests the         *)
(* pattern lists for truthiness.  A (hash, path) tuple is <<hash, path>>.  *)
(***************************************************************************)
EXTENDS Integers, Sequences, FiniteSets, TLC

VARIABLES
    pc,                         \* position in main, or in the function under test
    args,                       \* the parsed command line (argparse namespace)
    file1_pair_exclusion_list,  \* main, line 181
    file2_pair_exclusion_list,  \* main, line 182
    set1,                       \* main, line 184
    set2,                       \* main, line 185
    unique_to_set1,             \* main, line 192
    unique_to_set2,             \* main, line 192
    output,                     \* what main has printed so far
    exit_status,                \* the process's exit status (-1 while it runs)
    call,                       \* the arguments of the function under test
    ret                         \* the value the function under test returned

vars == <<pc, args, file1_pair_exclusion_list, file2_pair_exclusion_list, set1, set2,
          unique_to_set1, unique_to_set2, output, exit_status, call, ret>>

-----------------------------------------------------------------------------
(* Bounds of the model.                                                    *)

MaxPathLen == 5     \* longest path given to are_paths_similar on its own
MaxLineLen == 7     \* longest raw line given to the line parser on its own
MaxSetSize == 2     \* largest record set given to the differ on its own
MaxLines == 3       \* longest manifest given to process_file on its own
MaxMainLines == 1   \* longest manifest in a run of main

-----------------------------------------------------------------------------
(* Python's str operations, on sequences of characters.                    *)

Min(a, b) == IF a <= b THEN a ELSE b

\* str.isspace for one character: what str.split() splits on and str.strip() removes.
IsSpace(c) == c \in {" ", "\t", "\n", "\r", "\f"}

\* s[-n:] for 1 <= n <= len(s)
Suffix(s, n) == SubSeq(s, Len(s) - n + 1, Len(s))

\* c * n
Rep(c, n) == [i \in 1..n |-> c]

\* s.strip()
RECURSIVE lstrip(_)
lstrip(s) == IF s # <<>> /\ IsSpace(Head(s)) THEN lstrip(Tail(s)) ELSE s

RECURSIVE rstrip(_)
rstrip(s) ==
    IF s # <<>> /\ IsSpace(s[Len(s)]) THEN rstrip(SubSeq(s, 1, Len(s) - 1)) ELSE s

strip(s) == rstrip(lstrip(s))

\* the k-th smallest element of a set of positions
Kth(positions, k) ==
    CHOOSE i \in positions : Cardinality({j \in positions : j < i}) = k - 1

\* s.split(sep) for a one-character sep: the fields between the separators,
\* empty fields kept, so one field more than there are separators.
split_on(s, sep) ==
    LET seps == {i \in 1..Len(s) : s[i] = sep}
        n == Cardinality(seps)
    IN  [k \in 1..(n + 1) |->
            SubSeq(s, IF k = 1 THEN 1 ELSE Kth(seps, k - 1) + 1,
                      IF k = n + 1 THEN Len(s) ELSE Kth(seps, k) - 1)]

split_comma(s) == split_on(s, ",")

\* s.split(): the maximal runs of non-whitespace characters, no empty token.
split_space(s) ==
    LET starts == {i \in 1..Len(s) : ~IsSpace(s[i]) /\ (i = 1 \/ IsSpace(s[i - 1]))}
        ends == {i \in 1..Len(s) : ~IsSpace(s[i]) /\ (i = Len(s) \/ IsSpace(s[i + 1]))}
    IN  [k \in 1..Cardinality(starts) |-> SubSeq(s, Kth(starts, k), Kth(ends, k))]

\* re.search(pattern, s) is not None, for a pattern without metacharacters:
\* the pattern occurs somewhere in s.
re_search(pattern, s) ==
    \E i \in 1..(Len(s) - Len(pattern) + 1) :
        SubSeq(s, i, i + Len(pattern) - 1) = pattern

-----------------------------------------------------------------------------
(* are_paths_similar, lines 20-58.                                         *)

\* cutoff_percentage=0.4 as the fraction 2/5
cutoff_percentage == <<2, 5>>

\* the loop of lines 38-43: match_index after the iterations from i on
RECURSIVE match_loop(_, _, _, _, _)
match_loop(path1, path2, i, min_len, match_index) ==
    IF i >= min_len THEN match_index
    ELSE IF Suffix(path1, i + 1) = Suffix(path2, i + 1)
         THEN match_loop(path1, path2, i + 1, min_len, i)
    ELSE match_index

\* cut / length <= cutoff, lines 54-58.  The quotient is never rounded across the
\* cutoff for lengths below 2^50, so the float comparison is the exact one.
perc_within(cut, length, cutoff) == cut * cutoff[2] <= cutoff[1] * length

\* the `<` slip
are_paths_similar_strict(path1, path2, cutoff) ==
    LET min_len == Min(Len(path1), Len(path2))
        match_index == match_loop(path1, path2, 0, min_len, -1)
        cut1 == Len(path1) - match_index - 1
        cut2 == Len(path2) - match_index - 1
    IN  IF match_index = -1 THEN FALSE
        ELSE cut1 * cutoff[2] < cutoff[1] * Len(path1)
             /\ cut2 * cutoff[2] < cutoff[1] * Len(path2)

\* only the first path's percentage is tested
are_paths_similar_first_only(path1, path2, cutoff) ==
    LET min_len == Min(Len(path1), Len(path2))
        match_index == match_loop(path1, path2, 0, min_len, -1)
        cut1 == Len(path1) - match_index - 1
    IN  IF match_index = -1 THEN FALSE
        ELSE perc_within(cut1, Len(path1), cutoff)

are_paths_similar(path1, path2, cutoff) ==
    LET min_len == Min(Len(path1), Len(path2))
        match_index == match_loop(path1, path2, 0, min_len, -1)
        cut1 == Len(path1) - match_index - 1
        cut2 == Len(path2) - match_index - 1
    IN  IF match_index = -1 THEN FALSE
        ELSE perc_within(cut1, Len(path1), cutoff)
             /\ perc_within(cut2, Len(path2), cutoff)

-----------------------------------------------------------------------------
(* subtract_sets_with_similar_paths, lines 61-101.                         *)

\* default mode accepts a candidate on either test instead of both
RECURSIVE find_similar_or_exact_either(_, _, _, _, _)
find_similar_or_exact_either(item, comparison_set, ignore_hashes, ignore_paths, cutoff) ==
    IF comparison_set = {} THEN FALSE
    ELSE LET other_item == CHOOSE x \in comparison_set : TRUE
             rest == comparison_set \ {other_item}
         IN  IF ignore_hashes
             THEN are_paths_similar(item[2], other_item[2], cutoff)
                  \/ find_similar_or_exact_either(item, rest, ignore_hashes, ignore_paths, cutoff)
             ELSE IF ignore_paths
             THEN item[1] = other_item[1]
                  \/ find_similar_or_exact_either(item, rest, ignore_hashes, ignore_paths, cutoff)
             ELSE (item[1] = other_item[1]
                   \/ are_paths_similar(item[2], other_item[2], cutoff))
                  \/ find_similar_or_exact_either(item, rest, ignore_hashes, ignore_paths, cutoff)

\* the nested helper, lines 76-93; the loop takes the candidates in the set's
\* iteration order, which CHOOSE fixes, and returns at the first match
RECURSIVE find_similar_or_exact(_, _, _, _, _)
find_similar_or_exact(item, comparison_set, ignore_hashes, ignore_paths, cutoff) ==
    IF comparison_set = {} THEN FALSE
    ELSE LET other_item == CHOOSE x \in comparison_set : TRUE
             rest == comparison_set \ {other_item}
             hash1 == item[1]
             path1 == item[2]
             hash2 == other_item[1]
             path2 == other_item[2]
         IN  IF ignore_hashes
             THEN IF are_paths_similar(path1, path2, cutoff) THEN TRUE
                  ELSE find_similar_or_exact(item, rest, ignore_hashes, ignore_paths, cutoff)
             ELSE IF ignore_paths
             THEN IF hash1 = hash2 THEN TRUE
                  ELSE find_similar_or_exact(item, rest, ignore_hashes, ignore_paths, cutoff)
             ELSE IF hash1 = hash2 /\ are_paths_similar(path1, path2, cutoff) THEN TRUE
                  ELSE find_similar_or_exact(item, rest, ignore_hashes, ignore_paths, cutoff)

\* returns <<unique_to_set1, unique_to_set2>>
subtract_sets_with_similar_paths(s1, s2, ignore_hashes, ignore_paths, cutoff) ==
    LET u1 == {item \in s1 :
                 ~find_similar_or_exact(item, s2, ignore_hashes, ignore_paths, cutoff)}
        u2 == {item \in s2 :
                 ~find_similar_or_exact(item, s1, ignore_hashes, ignore_paths, cutoff)}
    IN  <<u1, u2>>

-----------------------------------------------------------------------------
(* process_file, lines 104-147.                                            *)

\* `continue` at line 126: the line yields no pair
NoRecord == <<>>

\* the hash of line 141
asterisk_hash == Rep("*", 32)

\* the 4-field comma dialect takes the date column for the path
ParseLine_date_as_path(line) ==
    LET split_1 == split_comma(line)
        split_2 == split_space(line)
    IN  IF Len(split_1) = 4 THEN <<strip(split_1[2]), strip(split_1[3])>>
        ELSE IF Len(split_2) = 4 THEN <<strip(split_2[2]), strip(split_2[4])>>
        ELSE IF Len(split_2) = 2 THEN <<strip(split_2[1]), strip(split_2[2])>>
        ELSE IF Len(split_1) = 3 THEN <<strip(split_1[2]), strip(split_1[3])>>
        ELSE NoRecord

\* lines 108-126: the pair of one raw line (Python indexes from 0, TLA+ from 1)
ParseLine(line) ==
    LET split_1 == split_comma(line)
        split_2 == split_space(line)
    IN  IF Len(split_1) = 4 THEN <<strip(split_1[2]), strip(split_1[4])>>
        ELSE IF Len(split_2) = 4 THEN <<strip(split_2[2]), strip(split_2[4])>>
        ELSE IF Len(split_2) = 2 THEN <<strip(split_2[1]), strip(split_2[2])>>
        ELSE IF Len(split_1) = 3 THEN <<strip(split_1[2]), strip(split_1[3])>>
        ELSE NoRecord

\* any(re.search(pattern, path) for pattern in path_list)
any_search(path_list, path) ==
    \E i \in 1..Len(path_list) : re_search(path_list[i], path)

\* the asterisk hash is excluded whatever ignore_hashes_set is
loop_body_always_excludes(line, acc, ignore_hashes_set, exclude_path_list, include_path_list) ==
    LET pair == ParseLine(line)
        excluded == [acc EXCEPT !.excluded_pairs = Append(@, pair)]
    IN  IF pair = NoRecord THEN acc
        ELSE IF exclude_path_list # <<>> /\ any_search(exclude_path_list, pair[2])
             THEN excluded
        ELSE IF include_path_list # <<>> /\ ~any_search(include_path_list, pair[2])
             THEN excluded
        ELSE IF pair[1] = asterisk_hash THEN excluded
        ELSE [acc EXCEPT !.file_set = @ \cup {pair}]

\* the include list is consulted only when no exclude list is given
loop_body_elif_include(line, acc, ignore_hashes_set, exclude_path_list, include_path_list) ==
    LET pair == ParseLine(line)
        excluded == [acc EXCEPT !.excluded_pairs = Append(@, pair)]
    IN  IF pair = NoRecord THEN acc
        ELSE IF exclude_path_list # <<>>
             THEN IF any_search(exclude_path_list, pair[2]) THEN excluded
                  ELSE [acc EXCEPT !.file_set = @ \cup {pair}]
        ELSE IF include_path_list # <<>> /\ ~any_search(include_path_list, pair[2])
             THEN excluded
        ELSE IF pair[1] = asterisk_hash /\ ~ignore_hashes_set THEN excluded
        ELSE [acc EXCEPT !.file_set = @ \cup {pair}]

\* the `continue` of line 132 is missing
loop_body_no_continue(line, acc, ignore_hashes_set, exclude_path_list, include_path_list) ==
    LET pair == ParseLine(line)
        excluded == [acc EXCEPT !.excluded_pairs = Append(@, pair)]
        after_exclude ==
            IF exclude_path_list # <<>> /\ any_search(exclude_path_list, pair[2])
            THEN excluded ELSE acc
    IN  IF pair = NoRecord THEN acc
        ELSE IF include_path_list # <<>> /\ ~any_search(include_path_list, pair[2])
             THEN [after_exclude EXCEPT !.excluded_pairs = Append(@, pair)]
        ELSE IF pair[1] = asterisk_hash /\ ~ignore_hashes_set
             THEN [after_exclude EXCEPT !.excluded_pairs = Append(@, pair)]
        ELSE [after_exclude EXCEPT !.file_set = @ \cup {pair}]

\* lines 108-145: one iteration of the loop over the file's lines; acc holds
\* file_set and the caller's excluded_pairs list
loop_body(line, acc, ignore_hashes_set, exclude_path_list, include_path_list) ==
    LET pair == ParseLine(line)
        excluded == [acc EXCEPT !.excluded_pairs = Append(@, pair)]
    IN  IF pair = NoRecord THEN acc
        ELSE IF exclude_path_list # <<>> /\ any_search(exclude_path_list, pair[2])
             THEN excluded
        ELSE IF include_path_list # <<>> /\ ~any_search(include_path_list, pair[2])
             THEN excluded
        ELSE IF pair[1] = asterisk_hash /\ ~ignore_hashes_set THEN excluded
        ELSE [acc EXCEPT !.file_set = @ \cup {pair}]

\* the loop of line 107 from its k-th line on
RECURSIVE for_line_in_f(_, _, _, _, _, _)
for_line_in_f(lines, k, acc, ignore_hashes_set, exclude_path_list, include_path_list) ==
    IF k > Len(lines) THEN acc
    ELSE for_line_in_f(lines, k + 1,
                       loop_body(lines[k], acc, ignore_hashes_set,
                                 exclude_path_list, include_path_list),
                       ignore_hashes_set, exclude_path_list, include_path_list)

\* process_file on a file that holds `lines`: the returned file_set and the
\* excluded_pairs list after the appends
process_file(lines, excluded_pairs, ignore_hashes_set, exclude_path_list, include_path_list) ==
    for_line_in_f(lines, 1, [file_set |-> {}, excluded_pairs |-> excluded_pairs],
                  ignore_hashes_set, exclude_path_list, include_path_list)

-----------------------------------------------------------------------------
(* The inputs the model draws from.                                        *)

\* all sequences over S of length at most n
SeqsUpTo(S, n) == UNION {[1..k -> S] : k \in 0..n}

\* all subsets of S with at most n elements
SubsetsUpTo(S, n) == {T \in SUBSET S : Cardinality(T) <= n}

md5_empty ==
    <<"d", "4", "1", "d", "8", "c", "d", "9", "8", "f", "0", "0", "b", "2", "0", "4", "e",
      "9", "8", "0", "0", "9", "9", "8", "e", "c", "f", "8", "4", "2", "7", "e">>

\* manifest lines for runs of main
line_comma3 == md5_empty \o
    <<",", "2", "0", "2", "4", "-", "0", "1", "-", "0", "1", ",", ".", "/", "a", "/", "b",
      "/", "f", "i", "l", "e", "1", ".", "t", "x", "t">>

line_space2 == md5_empty \o
    <<" ", ".", "/", "x", "/", "b", "/", "f", "i", "l", "e", "1", ".", "t", "x", "t">>

line_comma4 == <<"0", ",">> \o md5_empty \o
    <<",", "2", "0", "2", "4", "-", "0", "1", "-", "0", "1", ",", ".", "/", "a", "/", "b",
      "/", "f", "i", "l", "e", "1", ".", "t", "x", "t">>

line_empty_path == <<"0", ",">> \o md5_empty \o
    <<",", "2", "0", "2", "4", "-", "0", "1", "-", "0", "1", ",", "\n">>

line_asterisks == asterisk_hash \o
    <<" ", "/", "x", "/", "y", "\n">>

MainCatalogue == {line_comma3, line_space2, line_comma4, line_empty_path, line_asterisks}

MainExcludeLists == {<<>>, << <<"x", "/", "b">> >>}
MainIncludeLists == {<<>>, << <<"f", "i", "l", "e", "1">> >>}

\* short manifest lines for process_file on its own
short_comma4 ==
    <<"1", ",", "h", ",", "d", ",", "/", "x", "/", "a", "\n">>
short_space2 ==
    <<"k", " ", " ", "/", "y", "/", "a", "\n">>
short_space4 ==
    <<"1", " ", "h", " ", "d", " ", "/", "x", "/", "b", "\n">>
short_comma3 ==
    <<"1", ",", "h", ",", "/", "y", "/", "b", "\n">>
short_empty_path ==
    <<"1", ",", "h", ",", "d", ",", "\n">>
short_unrecognized ==
    <<"h", "\n">>
short_asterisks == asterisk_hash \o
    <<" ", "/", "y", "/", "a", "\n">>

LoadCatalogue == {short_comma4, short_space2, short_space4, short_comma3,
                  short_empty_path, short_unrecognized, short_asterisks}

LoadExcludeLists == {<<>>, << <<"/", "x">> >>, << <<"/", "x">>, <<"b">> >>}
LoadIncludeLists == {<<>>, << <<"a">> >>}

\* the characters of the paths and raw lines given to the pure functions
PathChars == {"a", "b"}
LineChars == {",", " ", "a", "b"}

\* the records given to the differ on its own
DiffHashes == {<<"h">>, <<"k">>}
DiffPaths == {<<>>, <<"z">>, <<"x", "a", "b", "c">>, <<"y", "a", "b", "c">>}
DiffRecords == {<<h, p>> : h \in DiffHashes, p \in DiffPaths}

-----------------------------------------------------------------------------
(* main, lines 150-230.                                                    *)

\* the namespace of a run that is not a run of main
NoArgs == [file1 |-> <<>>, file2 |-> <<>>, c |-> 0,
           ignore_hashes |-> FALSE, ignore_paths |-> FALSE,
           exclude_path_list |-> <<>>, include_path_list |-> <<>>]

\* main's variables before main has run
MainIdle ==
    /\ file1_pair_exclusion_list = <<>>
    /\ file2_pair_exclusion_list = <<>>
    /\ set1 = {}
    /\ set2 = {}
    /\ unique_to_set1 = {}
    /\ unique_to_set2 = {}
    /\ output = <<>>
    /\ exit_status = -1

mainVars == <<args, file1_pair_exclusion_list, file2_pair_exclusion_list, set1, set2,
              unique_to_set1, unique_to_set2, output, exit_status>>

\* line 166: file1 and file2 stand for the lines of the named files; c is 0 for None
Init ==
    /\ pc = "start"
    /\ args \in [file1 : SeqsUpTo(MainCatalogue, MaxMainLines),
                 file2 : SeqsUpTo(MainCatalogue, MaxMainLines),
                 c : {0, 1, 2},
                 ignore_hashes : BOOLEAN,
                 ignore_paths : BOOLEAN,
                 exclude_path_list : MainExcludeLists,
                 include_path_list : MainIncludeLists]
    /\ MainIdle
    /\ call = <<>>
    /\ ret = <<>>

\* the check is dropped
CheckIgnoreFlags_dropped ==
    /\ pc = "start"
    /\ pc' = "check_lists"
    /\ UNCHANGED <<args, file1_pair_exclusion_list, file2_pair_exclusion_list, set1, set2,
                   unique_to_set1, unique_to_set2, output, exit_status, call, ret>>

\* lines 174-176
CheckIgnoreFlags ==
    /\ pc = "start"
    /\ IF args.ignore_paths /\ args.ignore_hashes
       THEN /\ output' = Append(output, "ignore flags conflict")
            /\ exit_status' = 1
            /\ pc' = "exit"
       ELSE /\ pc' = "check_lists"
            /\ UNCHANGED <<output, exit_status>>
    /\ UNCHANGED <<args, file1_pair_exclusion_list, file2_pair_exclusion_list, set1, set2,
                   unique_to_set1, unique_to_set2, call, ret>>

\* lines 178-179: the message is printed and the run goes on
CheckPathLists ==
    /\ pc = "check_lists"
    /\ output' = IF args.exclude_path_list # <<>> /\ args.include_path_list # <<>>
                 THEN Append(output, "path lists conflict")
                 ELSE output
    /\ pc' = "load1"
    /\ UNCHANGED <<args, file1_pair_exclusion_list, file2_pair_exclusion_list, set1, set2,
                   unique_to_set1, unique_to_set2, exit_status, call, ret>>

\* lines 181-184
LoadFile1 ==
    /\ pc = "load1"
    /\ LET r == process_file(args.file1, <<>>, args.ignore_hashes,
                             args.exclude_path_list, args.include_path_list)
       IN  /\ set1' = r.file_set
           /\ file1_pair_exclusion_list' = r.excluded_pairs
    /\ pc' = "load2"
    /\ UNCHANGED <<args, file2_pair_exclusion_list, set2,
                   unique_to_set1, unique_to_set2, output, exit_status, call, ret>>

\* line 185
LoadFile2 ==
    /\ pc = "load2"
    /\ LET r == process_file(args.file2, <<>>, args.ignore_hashes,
                             args.exclude_path_list, args.include_path_list)
       IN  /\ set2' = r.file_set
           /\ file2_pair_exclusion_list' = r.excluded_pairs
    /\ pc' = "compare"
    /\ UNCHANGED <<args, file1_pair_exclusion_list, set1,
                   unique_to_set1, unique_to_set2, output, exit_status, call, ret>>

\* lines 187-192
Compare ==
    /\ pc = "compare"
    /\ output' = Append(output, "BEGIN VERIFY_MD5DEEP REPORT")
    /\ LET r == subtract_sets_with_similar_paths(set1, set2, args.ignore_hashes,
                                                 args.ignore_paths, cutoff_percentage)
       IN  /\ unique_to_set1' = r[1]
           /\ unique_to_set2' = r[2]
    /\ pc' = "report"
    /\ UNCHANGED <<args, file1_pair_exclusion_list, file2_pair_exclusion_list, set1, set2,
                   exit_status, call, ret>>

\* one printed line per item of `unique`, or the line saying there is none
missing_lines(unique, item_line, none_line) ==
    IF unique = {} THEN <<none_line>>
    ELSE [i \in 1..Cardinality(unique) |-> item_line]

\* lines 194-230, one entry per printed line (its kind, not its wording)
report_lines ==
    (IF args.c # 2
     THEN missing_lines(unique_to_set2, "pair missing from file1",
                        "file1 is not missing any files")
     ELSE <<>>)
    \o (IF args.c = 0 THEN <<"separator">> ELSE <<>>)
    \o (IF args.c # 1
        THEN missing_lines(unique_to_set1, "pair missing from file2",
                           "file2 is not missing any files")
        ELSE <<>>)
    \o <<"FINAL TALLY">>
    \o (IF args.c # 2 THEN <<"tally of file1">> ELSE <<>>)
    \o (IF args.c # 1 THEN <<"tally of file2">> ELSE <<>>)
    \o <<"NOTES">>
    \o (IF args.ignore_hashes THEN <<"hash values were not compared">> ELSE <<>>)
    \o (IF args.ignore_paths THEN <<"filepaths were not compared">> ELSE <<>>)
    \o (IF Len(file1_pair_exclusion_list) > 0 THEN <<"file1 exclusions">> ELSE <<>>)
    \o (IF Len(file2_pair_exclusion_list) > 0 THEN <<"file2 exclusions">> ELSE <<>>)

\* lines 193-230, and the return of main
Report ==
    /\ pc = "report"
    /\ output' = output \o report_lines
    /\ exit_status' = 0
    /\ pc' = "done"
    /\ UNCHANGED <<args, file1_pair_exclusion_list, file2_pair_exclusion_list, set1, set2,
                   unique_to_set1, unique_to_set2, call, ret>>

Next ==
    \/ CheckIgnoreFlags
    \/ CheckPathLists
    \/ LoadFile1
    \/ LoadFile2
    \/ Compare
    \/ Report

Spec == Init /\ [][Next]_vars

-----------------------------------------------------------------------------
(* The functions on their own: the arguments are drawn in the initial      *)
(* state and one action calls the function.                                *)

InitPaths ==
    /\ pc = "call"
    /\ call \in [path1 : SeqsUpTo(PathChars, MaxPathLen),
                 path2 : SeqsUpTo(PathChars, MaxPathLen)]
    /\ ret = FALSE
    /\ args = NoArgs
    /\ MainIdle

CallArePathsSimilar ==
    /\ pc = "call"
    /\ ret' = are_paths_similar(call.path1, call.path2, cutoff_percentage)
    /\ pc' = "returned"
    /\ UNCHANGED <<call, mainVars>>

SpecPaths == InitPaths /\ [][CallArePathsSimilar]_vars

InitParse ==
    /\ pc = "call"
    /\ call \in [line : SeqsUpTo(LineChars, MaxLineLen)]
    /\ ret = NoRecord
    /\ args = NoArgs
    /\ MainIdle

CallParseLine ==
    /\ pc = "call"
    /\ ret' = ParseLine(call.line)
    /\ pc' = "returned"
    /\ UNCHANGED <<call, mainVars>>

SpecParse == InitParse /\ [][CallParseLine]_vars

InitDiff ==
    /\ pc = "call"
    /\ call \in [set1 : SubsetsUpTo(DiffRecords, MaxSetSize),
                 set2 : SubsetsUpTo(DiffRecords, MaxSetSize),
                 ignore_hashes : BOOLEAN,
                 ignore_paths : BOOLEAN]
    /\ ret = <<{}, {}>>
    /\ args = NoArgs
    /\ MainIdle

CallSubtract ==
    /\ pc = "call"
    /\ ret' = subtract_sets_with_similar_paths(call.set1, call.set2, call.ignore_hashes,
                                               call.ignore_paths, cutoff_percentage)
    /\ pc' = "returned"
    /\ UNCHANGED <<call, mainVars>>

SpecDiff == InitDiff /\ [][CallSubtract]_vars

InitLoad ==
    /\ pc = "call"
    /\ call \in [lines : SeqsUpTo(LoadCatalogue, MaxLines),
                 ignore_hashes_set : BOOLEAN,
                 exclude_path_list : LoadExcludeLists,
                 include_path_list : LoadIncludeLists]
    /\ ret = [file_set |-> {}, excluded_pairs |-> <<>>]
    /\ args = NoArgs
    /\ MainIdle

CallProcessFile ==
    /\ pc = "call"
    /\ ret' = process_file(call.lines, <<>>, call.ignore_hashes_set,
                           call.exclude_path_list, call.include_path_list)
    /\ pc' = "returned"
    /\ UNCHANGED <<call, mainVars>>

SpecLoad == InitLoad /\ [][CallProcessFile]_vars

-----------------------------------------------------------------------------
(* The claims.                                                             *)

Range(s) == {s[i] : i \in 1..Len(s)}

\* the pairs the lines of a manifest parse to
ParsedRecords(lines) == {ParseLine(lines[i]) : i \in 1..Len(lines)} \ {NoRecord}

\* main has loaded file1 / file2
Loaded1 == pc \in {"load2", "compare", "report", "done"}
Loaded2 == pc \in {"compare", "report", "done"}
Compared == pc \in {"report", "done"}

DefaultMode == ~args.ignore_hashes /\ ~args.ignore_paths
NoPathLists == args.exclude_path_list = <<>> /\ args.include_path_list = <<>>

path_a == <<".", "/", "a", "/", "b", "/", "f", "i", "l", "e", "1", ".", "t", "x", "t">>
path_x == <<".", "/", "x", "/", "b", "/", "f", "i", "l", "e", "1", ".", "t", "x", "t">>
date_field == <<"2", "0", "2", "4", "-", "0", "1", "-", "0", "1">>

\* the record the claimed precedence gives: comma-splitting decides first
CommaFirstParse(line) ==
    LET fields == split_comma(line)
        tokens == split_space(line)
    IN  IF Len(fields) = 4 THEN <<strip(fields[2]), strip(fields[4])>>
        ELSE IF Len(fields) = 3 THEN <<strip(fields[2]), strip(fields[3])>>
        ELSE IF Len(tokens) = 4 THEN <<strip(tokens[2]), strip(tokens[4])>>
        ELSE IF Len(tokens) = 2 THEN <<strip(tokens[1]), strip(tokens[2])>>
        ELSE NoRecord

\* C1: for every raw line the parser returns the record of the comma-first
\* precedence: 4 comma fields, else 3 comma fields, else 4 whitespace tokens, else
\* 2 whitespace tokens, else no record.
C1_CommaSplitDecidesFirst ==
    pc = "returned" => ret = CommaFirstParse(call.line)

\* the match predicate of the three modes
Matches(r1, r2, mode) ==
    CASE mode = "ignore-hashes" -> are_paths_similar(r1[2], r2[2], cutoff_percentage)
      [] mode = "ignore-paths" -> r1[1] = r2[1]
      [] mode = "default" ->
            r1[1] = r2[1] /\ are_paths_similar(r1[2], r2[2], cutoff_percentage)

ModeOf(ignore_hashes, ignore_paths) ==
    IF ignore_hashes THEN "ignore-hashes"
    ELSE IF ignore_paths THEN "ignore-paths" ELSE "default"

\* C2: in each of the three modes the differ returns exactly the records of A that
\* no record of B matches and the records of B that no record of A matches.
C2_ExactSetDifference ==
    (pc = "returned" /\ ~(call.ignore_hashes /\ call.ignore_paths)) =>
        LET mode == ModeOf(call.ignore_hashes, call.ignore_paths)
        IN  /\ ret[1] = {a \in call.set1 : ~\E b \in call.set2 : Matches(a, b, mode)}
            /\ ret[2] = {b \in call.set2 : ~\E a \in call.set1 : Matches(b, a, mode)}

\* default mode, with a matched and an unmatched record on each side
C2_Witness ==
    /\ pc = "returned"
    /\ ~call.ignore_hashes /\ ~call.ignore_paths
    /\ ret[1] # {} /\ ret[1] # call.set1
    /\ ret[2] # {} /\ ret[2] # call.set2

\* the length of the longest common suffix of p1 and p2
LongestCommonSuffix(p1, p2) ==
    CHOOSE m \in 0..Min(Len(p1), Len(p2)) :
        /\ \A j \in 1..m : p1[Len(p1) - j + 1] = p2[Len(p2) - j + 1]
        /\ m = Min(Len(p1), Len(p2)) \/ p1[Len(p1) - m] # p2[Len(p2) - m]

\* C3: are_paths_similar is true iff the longest common suffix length m is at least
\* 1 and 5*(len - m) <= 2*len for both paths; it is false when m = 0.
C3_SimilarIffSuffixWithinCutoff ==
    pc = "returned" =>
        LET m == LongestCommonSuffix(call.path1, call.path2)
        IN  ret = (/\ m >= 1
                   /\ 5 * (Len(call.path1) - m) <= 2 * Len(call.path1)
                   /\ 5 * (Len(call.path2) - m) <= 2 * Len(call.path2))

\* the inclusive boundary: a prefix of exactly 40% of the first path, and similar
C3_Witness ==
    /\ pc = "returned"
    /\ ret = TRUE
    /\ LET m == LongestCommonSuffix(call.path1, call.path2)
       IN  m < Len(call.path1) /\ 5 * (Len(call.path1) - m) = 2 * Len(call.path1)

\* C4: diffing a loaded record set against an identical one in default mode leaves
\* both unique sets empty.
C4_IdenticalSetsHaveEmptyDiff ==
    (Compared /\ DefaultMode /\ set1 = set2) =>
        unique_to_set1 = {} /\ unique_to_set2 = {}

\* C5 as claimed: the line without a size column and the whitespace line match.
C5_ScenarioAsClaimed ==
    (Compared /\ DefaultMode /\ NoPathLists
     /\ args.file1 = <<line_comma3>> /\ args.file2 = <<line_space2>>) =>
        unique_to_set1 = {} /\ unique_to_set2 = {}

\* C5, amended: the 4-field comma line (with its size column) and the whitespace
\* line load to records with the same hash and similar paths and both unique sets
\* are empty; the 3-field line of the claim loads with the date as its hash and
\* both records are unique; and whatever lines they came from, records with the
\* same hash and similar paths are in neither unique set.
C5_CrossDialectMatch ==
    (Compared /\ DefaultMode) =>
        /\ (NoPathLists /\ args.file1 = <<line_comma4>> /\ args.file2 = <<line_space2>>) =>
              /\ set1 = {<<md5_empty, path_a>>}
              /\ set2 = {<<md5_empty, path_x>>}
              /\ unique_to_set1 = {} /\ unique_to_set2 = {}
        /\ (NoPathLists /\ args.file1 = <<line_comma3>> /\ args.file2 = <<line_space2>>) =>
              /\ set1 = {<<date_field, path_a>>}
              /\ set2 = {<<md5_empty, path_x>>}
              /\ unique_to_set1 = set1 /\ unique_to_set2 = set2
        /\ \A r1 \in set1, r2 \in set2 :
              (r1[1] = r2[1] /\ are_paths_similar(r1[2], r2[2], cutoff_percentage)) =>
                  r1 \notin unique_to_set1 /\ r2 \notin unique_to_set2

C5_Witness ==
    /\ pc = "done" /\ DefaultMode /\ NoPathLists
    /\ args.file1 = <<line_comma4>> /\ args.file2 = <<line_space2>>
    /\ set1 # set2
    /\ unique_to_set1 = {} /\ unique_to_set2 = {}

\* the placeholder hash: a run of 32 asterisks
thirty_two_asterisks == Rep("*", 32)

\* the path passes the exclude list and the include list of the run
PassesPathFilters(path) ==
    /\ args.exclude_path_list = <<>> \/ ~any_search(args.exclude_path_list, path)
    /\ args.include_path_list = <<>> \/ any_search(args.include_path_list, path)

PlaceholderHandled(lines, file_set, excluded_pairs) ==
    \A r \in ParsedRecords(lines) :
        (r[1] = thirty_two_asterisks /\ PassesPathFilters(r[2])) =>
            IF args.ignore_hashes
            THEN r \in file_set /\ r \notin Range(excluded_pairs)
            ELSE r \in Range(excluded_pairs) /\ r \notin file_set

\* C6: a parsed record that passes the path filters and has the 32-asterisk hash is
\* in the excluded list and not in the loaded set when ignore-hashes is false, and
\* in the loaded set and not in the excluded list when it is true.
C6_PlaceholderHash ==
    /\ Loaded1 => PlaceholderHandled(args.file1, set1, file1_pair_exclusion_list)
    /\ Loaded2 => PlaceholderHandled(args.file2, set2, file2_pair_exclusion_list)

\* ignore-hashes: an asterisk-hash record is compared
C6_Witness ==
    /\ pc = "done"
    /\ args.ignore_hashes
    /\ \E r \in set1 : r[1] = thirty_two_asterisks
    /\ file1_pair_exclusion_list = <<>>

BothPathLists == args.exclude_path_list # <<>> /\ args.include_path_list # <<>>

BothFiltersApplied(lines, file_set, excluded_pairs) ==
    /\ \A r \in file_set :
          /\ ~any_search(args.exclude_path_list, r[2])
          /\ any_search(args.include_path_list, r[2])
    /\ \A r \in ParsedRecords(lines) :
          (any_search(args.exclude_path_list, r[2])
           \/ ~any_search(args.include_path_list, r[2])) =>
              r \in Range(excluded_pairs)

\* C7: with both an exclude list and an include list the conflict is reported
\* before the manifests are loaded, and no record is loaded or compared that was
\* checked against only one of the lists: every loaded record matches no exclude
\* pattern and some include pattern, and every other parsed record is excluded.
C7_BothListsReportedAndApplied ==
    BothPathLists =>
        /\ pc \in {"load1", "load2", "compare", "report", "done"} =>
              "path lists conflict" \in Range(output)
        /\ Loaded1 => BothFiltersApplied(args.file1, set1, file1_pair_exclusion_list)
        /\ Loaded2 => BothFiltersApplied(args.file2, set2, file2_pair_exclusion_list)
        /\ unique_to_set1 \subseteq set1 /\ unique_to_set2 \subseteq set2

\* both lists: one record kept, one excluded by the include list alone
C7_Witness ==
    /\ pc = "done"
    /\ BothPathLists
    /\ set1 # {}
    /\ \E r \in Range(file2_pair_exclusion_list) :
          ~any_search(args.exclude_path_list, r[2])

\* C8: with both --ignore-hashes and --ignore-paths the run ends with exit status 1
\* before a manifest is loaded, a difference is computed or a report section is
\* printed; a run that reaches the comparison has at most one of the flags.
C8_BothIgnoreFlagsExit ==
    /\ (args.ignore_hashes /\ args.ignore_paths) =>
          /\ pc \in {"start", "exit"}
          /\ pc = "exit" => exit_status = 1
          /\ set1 = {} /\ set2 = {}
          /\ file1_pair_exclusion_list = <<>> /\ file2_pair_exclusion_list = <<>>
          /\ unique_to_set1 = {} /\ unique_to_set2 = {}
          /\ Range(output) \subseteq {"ignore flags conflict"}
    /\ pc \in {"check_lists", "load1", "load2", "compare", "report", "done"} =>
          ~(args.ignore_hashes /\ args.ignore_paths)
    /\ exit_status = 1 <=> pc = "exit"

C8_Witness ==
    /\ pc = "exit"
    /\ exit_status = 1
    /\ args.ignore_hashes /\ args.ignore_paths
    /\ args.file1 # <<>>

\* C9: after process_file every parsed record whose path matches an exclude pattern
\* is in the excluded list and not in the loaded set, and every parsed record is in
\* exactly one of the two, which are disjoint.
C9_ExcludedOrLoaded ==
    pc = "returned" =>
        LET parsed == ParsedRecords(call.lines)
            excluded == Range(ret.excluded_pairs)
        IN  /\ \A r \in parsed :
                  (call.exclude_path_list # <<>>
                   /\ any_search(call.exclude_path_list, r[2])) =>
                      r \in excluded /\ r \notin ret.file_set
            /\ \A r \in parsed : (r \in ret.file_set) # (r \in excluded)
            /\ ret.file_set \cup excluded = parsed
            /\ ret.file_set \cap excluded = {}

\* an exclude list that drops one record while another is loaded
C9_Witness ==
    /\ pc = "returned"
    /\ call.exclude_path_list # <<>>
    /\ ret.file_set # {}
    /\ \E r \in Range(ret.excluded_pairs) : any_search(call.exclude_path_list, r[2])

\* C10: are_paths_similar(p1, p2) = are_paths_similar(p2, p1) for all paths,
\* empty ones and ones of different lengths included.
C10_Symmetric ==
    pc = "returned" => ret = are_paths_similar(call.path2, call.path1, cutoff_percentage)

\* similar paths of different lengths
C10_Witness ==
    /\ pc = "returned"
    /\ ret = TRUE
    /\ Len(call.path1) # Len(call.path2)

====
